---- MODULE Spec2Model ----
(***************************************************************************)
(* MappedSource (position-mapped text buffer) of dts-tool.                 *)
(*                                                                         *)
(* A MappedSource owns a string `source` and an array `map` of mapping     *)
(* point objects.  Mapping points are JavaScript objects, so the model     *)
(* keeps them in a heap: a buffer's map is a sequence of object            *)
(* references and heap[ref] holds the object's fields.  `name` stands for  *)
(* every field of a point other than `offset` (name, source,               *)
(* originalLine, originalColumn), which no operation rewrites.             *)
(***************************************************************************)
EXTENDS Integers, Sequences, FiniteSets, TLC

\* ------------------------------------------------------------------ bounds
MaxLen == 2      \* longest text of the first buffer as constructed
MaxPts == 2      \* longest mapping sequence of a buffer as constructed

\* The second buffer, the fragment spliced into the first, is one character
\* shorter, and so is the longest plain string passed as an insertion.
MaxFrag == MaxLen - 1

Slots == {1, 2}
Ids == 1..(6 * MaxPts)

\* Texts are made of characters that are all different, so that a slice or a
\* splice that takes the wrong characters yields a different text.
Alphabet(s) ==
    IF s = 1 THEN <<"a", "b", "c", "d", "e", "f">>
    ELSE IF s = 2 THEN <<"x", "y", "z", "t">>
    ELSE <<"u", "v", "w", "r">>

Text(s, n) == SubSeq(Alphabet(s), 1, n)

Strings == {Text(0, n) : n \in 0..MaxFrag}

\* Offset arguments: from one below 0 to one beyond the longest text.
Args == (0 - 1)..(MaxLen + 1)

\* Length arguments: from one below 0 to the whole of the longest text.
Lengths == (0 - 1)..MaxLen

VARIABLES
    bufs,     \* bufs[s] = [source, map]: the MappedSource held by variable s
    heap,     \* heap[id] = [offset, name]: the mapping point objects
    lastOp,   \* the last call made: operation, receiver, arguments, outcome
    pc,       \* where the calling program is: "constructed", then "called"
              \* (Spec) or "derived", then "mutated" (SpecAlias)
    lm,       \* the LineMap under test: [totalLength, options, lineOffsets]
    lmOp,     \* the last call on lm: operation, arguments, value returned
    files,    \* the files on disk: [written, name, source, mapname, map]
    deletions,              \* the deletions scheduled against bufs[1]
    lastOriginalFileName,   \* utils.js: name the cache was last asked for
    lastOriginalFile,       \* utils.js: the SourceFile the cache holds
    originals,              \* the original source files that exist on disk
    loadOp,   \* the last call of loadOriginalFile: name and outcome
    fn,       \* the last call of a function without state: inputs, result
    modules,  \* cmdFlatten: the module graph being resolved
    tokenizer \* cmdFlatten: the tokenizer of a string, and its last call

coreVars == <<bufs, heap, lastOp, pc, lm, lmOp, files>>
extraVars == <<deletions, lastOriginalFileName, lastOriginalFile, originals,
               loadOp, fn, modules, tokenizer>>
vars == <<coreVars, extraVars>>

\* The values of the variables a program does not use.
NoDeletions == deletions = <<>>
NoCache ==
    /\ lastOriginalFileName = "null"
    /\ lastOriginalFile = "undefined"
    /\ originals = {}
    /\ loadOp = [op |-> "none"]
NoFn == fn = [op |-> "none"]
NoModules == modules = <<>>
NoTokenizer == tokenizer = [op |-> "none"]
ExtraIdle == NoDeletions /\ NoCache /\ NoFn /\ NoModules /\ NoTokenizer

\* ------------------------------------------------------- JavaScript values
\* Result of a numeric expression: a number or NaN.
Num(n) == [nan |-> FALSE, num |-> n]
NaN == [nan |-> TRUE, num |-> 0]

Clamp(n, len) == IF n < 0 THEN 0 ELSE IF n > len THEN len ELSE n

\* String.prototype.substring(start, end): arguments are clamped to
\* [0, length] and swapped when start > end.
StrSubstring(s, start, end) ==
    LET a == Clamp(start, Len(s))
        b == Clamp(end, Len(s))
        lo == IF a <= b THEN a ELSE b
        hi == IF a <= b THEN b ELSE a
    IN  SubSeq(s, lo + 1, hi)

\* String.prototype.substring(start): up to the end of the string.
StrSubstringFrom(s, start) == StrSubstring(s, start, Len(s))

\* Array.prototype.splice(i, 1) on a 0-based index.
RemoveAt(arr, i) == SubSeq(arr, 1, i) \o SubSeq(arr, i + 2, Len(arr))

\* Array.prototype.splice(pos, 0, ...entries) on a 0-based index; a start
\* beyond the length is clamped to the length.
InsertAt(arr, pos, entries) ==
    LET p == Clamp(pos, Len(arr))
    IN  SubSeq(arr, 1, p) \o entries \o SubSeq(arr, p + 1, Len(arr))

\* ------------------------------------------------------------ binarySearch
\* binarySearch that returns -left when the item is not found.
binarySearch_noMinusOne(sortedArray, compare_items, item) ==
    LET n == Len(sortedArray)
        loop[left \in 0..n, right \in (0 - 1)..(n - 1)] ==
            IF left <= right
            THEN LET mid == (left + right) \div 2
                     compare == compare_items[sortedArray[mid + 1], item]
                 IN  IF (~compare.nan) /\ compare.num = 0
                     THEN mid
                     ELSE IF (~compare.nan) /\ compare.num < 0
                          THEN loop[mid + 1, right]
                          ELSE loop[left, mid - 1]
            ELSE 0 - left
    IN  loop[0, n - 1]

binarySearch(sortedArray, compare_items, item) ==
    LET n == Len(sortedArray)
        loop[left \in 0..n, right \in (0 - 1)..(n - 1)] ==
            IF left <= right
            THEN LET mid == (left + right) \div 2
                     compare == compare_items[sortedArray[mid + 1], item]
                 IN  IF (~compare.nan) /\ compare.num = 0
                     THEN mid
                     ELSE IF (~compare.nan) /\ compare.num < 0
                          THEN loop[mid + 1, right]
                          ELSE loop[left, mid - 1]
            ELSE (0 - 1) - left
    IN  loop[0, n - 1]

\* The comparator splice passes, (a, b) => a - b, applied to a mapping point
\* object a and a number b: ToNumber of a plain object is NaN.
spliceCompare == [a \in Ids, b \in Int |-> NaN]

\* ----------------------------------------------------------------- LineMap
MaxLine == 3     \* longest text a LineMap is built from

\* x + y and x - y on numbers that may be NaN.
Plus(x, y) == IF x.nan \/ y.nan THEN NaN ELSE Num(x.num + y.num)
Minus(x, y) == IF x.nan \/ y.nan THEN NaN ELSE Num(x.num - y.num)

\* array[i] used as a number, i 0-based: an index outside the array gives
\* undefined, which is NaN in arithmetic.
ArrayGet(array, i) ==
    IF 0 <= i /\ i < Len(array) THEN Num(array[i + 1]) ELSE NaN

\* The comparator fromOffset passes, (a, b) => a - b, on two numbers.
lineCompare == [a \in Int, b \in Int |-> Num(a - b)]

\* lineOffsets with i instead of i + 1 pushed: the line start is put on the
\* terminator itself.
RECURSIVE lineOffsets_onTerminator(_, _, _)
lineOffsets_onTerminator(str, i, offs) ==
    IF i >= Len(str) THEN offs
    ELSE LET j == IF str[i + 1] = "\r" /\ i + 1 < Len(str)
                     /\ str[i + 2] = "\n"
                  THEN i + 1 ELSE i
         IN  IF str[j + 1] = "\n" \/ str[j + 1] = "\r"
             THEN lineOffsets_onTerminator(str, j + 1, Append(offs, j))
             ELSE lineOffsets_onTerminator(str, j + 1, offs)

\* lineOffsets without the step over the "\r" of a "\r\n" pair: the pair
\* counts as two terminators.
RECURSIVE lineOffsets_noPair(_, _, _)
lineOffsets_noPair(str, i, offs) ==
    IF i >= Len(str) THEN offs
    ELSE IF str[i + 1] = "\n" \/ str[i + 1] = "\r"
         THEN lineOffsets_noPair(str, i + 1, Append(offs, i + 1))
         ELSE lineOffsets_noPair(str, i + 1, offs)

\* The loop of the constructor from index i (0-based) on, offs being the
\* table built so far.
RECURSIVE lineOffsets(_, _, _)
lineOffsets(str, i, offs) ==
    IF i >= Len(str) THEN offs
    ELSE LET j == IF str[i + 1] = "\r" /\ i + 1 < Len(str)
                     /\ str[i + 2] = "\n"
                  THEN i + 1 ELSE i
         IN  IF str[j + 1] = "\n" \/ str[j + 1] = "\r"
             THEN lineOffsets(str, j + 1, Append(offs, j + 1))
             ELSE lineOffsets(str, j + 1, offs)

\* new LineMap(str, options); options holds both bases, the defaults being 0.
LineMap(str, options) ==
    [totalLength |-> Len(str),
     options     |-> options,
     lineOffsets |-> lineOffsets(str, 0, <<0>>)]

\* fromOffset without the lineNumber++ of an exact hit: an offset equal to a
\* line start is given to the line before.
fromOffset_tieToPrevious(this, offset) ==
    LET found == binarySearch(this.lineOffsets, lineCompare, offset)
        lineNumber == IF found < 0 THEN (0 - found) - 1 ELSE found
        length == Len(this.lineOffsets)
    IN  IF lineNumber < length
        THEN [line   |-> this.options.lineBase + lineNumber - 1,
              column |-> Minus(Num(this.options.columnBase + offset),
                               ArrayGet(this.lineOffsets, lineNumber - 1))]
        ELSE [line   |-> this.options.lineBase + length - 1,
              column |-> Minus(Num(this.options.columnBase + offset),
                               ArrayGet(this.lineOffsets, length - 1))]

\* fromOffset(offset): line is always a number, column may be NaN.
fromOffset(this, offset) ==
    LET found == binarySearch(this.lineOffsets, lineCompare, offset)
        lineNumber == IF found < 0 THEN (0 - found) - 1 ELSE found + 1
        length == Len(this.lineOffsets)
    IN  IF lineNumber < length
        THEN [line   |-> this.options.lineBase + lineNumber - 1,
              column |-> Minus(Num(this.options.columnBase + offset),
                               ArrayGet(this.lineOffsets, lineNumber - 1))]
        ELSE [line   |-> this.options.lineBase + length - 1,
              column |-> Minus(Num(this.options.columnBase + offset),
                               ArrayGet(this.lineOffsets, length - 1))]

\* toOffset without line -= lineBase.
toOffset_ignoreLineBase(this, line, column) ==
    LET l == line
        c == column - this.options.columnBase
    IN  IF l > Len(this.lineOffsets) THEN Num(this.totalLength)
        ELSE LET offset == Plus(ArrayGet(this.lineOffsets, l), Num(c))
             IN  IF (~offset.nan) /\ offset.num > this.totalLength
                 THEN Num(this.totalLength)
                 ELSE offset

\* toOffset without column -= columnBase.
toOffset_ignoreColumnBase(this, line, column) ==
    LET l == line - this.options.lineBase
        c == column
    IN  IF l > Len(this.lineOffsets) THEN Num(this.totalLength)
        ELSE LET offset == Plus(ArrayGet(this.lineOffsets, l), Num(c))
             IN  IF (~offset.nan) /\ offset.num > this.totalLength
                 THEN Num(this.totalLength)
                 ELSE offset

\* toOffset(line, column): the number returned, which may be NaN.
toOffset(this, line, column) ==
    LET l == line - this.options.lineBase
        c == column - this.options.columnBase
    IN  IF l > Len(this.lineOffsets) THEN Num(this.totalLength)
        ELSE LET offset == Plus(ArrayGet(this.lineOffsets, l), Num(c))
             IN  IF (~offset.nan) /\ offset.num > this.totalLength
                 THEN Num(this.totalLength)
                 ELSE offset

\* -------------------------------------------------------------- textUtils
\* str[i], i 0-based: an index outside the string gives undefined.
StrAt(str, i) == IF 0 <= i /\ i < Len(str) THEN str[i + 1] ELSE "undefined"

\* find_eol_ws(str, from): the first index from `from` on that holds neither
\* a space nor a tab, or the length.
RECURSIVE find_eol_ws(_, _)
find_eol_ws(str, from) ==
    IF from < Len(str) /\ ~(StrAt(str, from) # " " /\ StrAt(str, from) # "\t")
    THEN find_eol_ws(str, from + 1)
    ELSE from

\* skip_eol(str, from): both tests of a pair read str[from] twice.
skip_eol(str, from) ==
    IF StrAt(str, from) = "\r" /\ StrAt(str, from) = "\n" THEN from + 2
    ELSE IF StrAt(str, from) = "\n" /\ StrAt(str, from) = "\r" THEN from + 2
    ELSE IF StrAt(str, from) = "\n" THEN from + 1
    ELSE from

\* find_next_line_ws(str, from)
find_next_line_ws(str, from) == skip_eol(str, find_eol_ws(str, from))

\* ------------------------------------------------------------ MappedSource
\* new MappedSource(source, map)
MappedSource(source, map) == [source |-> source, map |-> map]

Range(f) == {f[i] : i \in DOMAIN f}

\* The mapping point objects some buffer refers to.
LiveIds(bs) == UNION {Range(bs[s].map) : s \in Slots}

\* k objects that are not in use, for Object.assign({}, x) to return.
RECURSIVE FreshIds(_, _)
FreshIds(used, k) ==
    IF k = 0 THEN <<>>
    ELSE LET id == CHOOSE x \in Ids \ used : \A y \in Ids \ used : x <= y
         IN  <<id>> \o FreshIds(used \cup {id}, k - 1)

\* cloneShifted without the copy: the points themselves are moved and returned.
cloneShifted_inPlace(h, pts, delta, used) ==
    [ids  |-> pts,
     heap |-> [id \in Ids |->
                 IF id \in Range(pts)
                 THEN [h[id] EXCEPT !.offset = @ + delta]
                 ELSE h[id]]]

\* pts.map(x => { let n = Object.assign({}, x); n.offset += delta; return n; })
cloneShifted(h, pts, delta, used) ==
    LET new == FreshIds(used, Len(pts))
    IN  [ids  |-> new,
         heap |-> [id \in Ids |->
                     IF \E i \in 1..Len(new) : new[i] = id
                     THEN LET i == CHOOSE j \in 1..Len(new) : new[j] = id
                          IN  [h[pts[i]] EXCEPT !.offset = @ + delta]
                     ELSE h[id]]]

\* substring that leaves out a point exactly at end.
substring_exclusiveEnd(bs, h, b, start, end) ==
    LET this == bs[b]
        source == StrSubstring(this.source, start, end)
        kept == SelectSeq(this.map,
                    LAMBDA x : h[x].offset >= start /\ h[x].offset < end)
        new == FreshIds(LiveIds(bs), Len(kept))
    IN  [ms   |-> MappedSource(source, new),
         heap |-> [id \in Ids |->
                     IF \E i \in 1..Len(new) : new[i] = id
                     THEN LET i == CHOOSE j \in 1..Len(new) : new[j] = id
                          IN  [h[kept[i]] EXCEPT !.offset = @ - start]
                     ELSE h[id]]]

\* substring(start, end): the buffer returned and the heap holding its points.
substring(bs, h, b, start, end) ==
    LET this == bs[b]
        source == StrSubstring(this.source, start, end)
        kept == SelectSeq(this.map,
                    LAMBDA x : h[x].offset >= start /\ h[x].offset <= end)
        map == cloneShifted(h, kept, 0 - start, LiveIds(bs))
    IN  [ms |-> MappedSource(source, map.ids), heap |-> map.heap]

\* spliceCheck without the check of the end offset.
spliceCheck_offsetOnly(sourceLength, offset, length) ==
    IF offset < 0 THEN "invalid splice offset" ELSE ""

\* The two precondition checks of splice: the message thrown, "" when none.
spliceCheck(sourceLength, offset, length) ==
    IF offset < 0 THEN "invalid splice offset"
    ELSE IF offset + length > sourceLength THEN "invalid splice end offset"
    ELSE ""

\* spliceSource that resumes the old text at offset: nothing is deleted.
spliceSource_keepDeleted(source, offset, length, string) ==
    StrSubstring(source, 0, offset) \o string
        \o StrSubstringFrom(source, offset)

\* Update the string.
spliceSource(source, offset, length, string) ==
    StrSubstring(source, 0, offset) \o string
        \o StrSubstringFrom(source, offset + length)

\* spliceLoop without the i-- after a removal: the point that follows a
\* removed point is skipped.
RECURSIVE spliceLoop_noStepBack(_, _, _, _, _, _)
spliceLoop_noStepBack(map, h, i, offset, length, stringLength) ==
    IF i >= Len(map) THEN [map |-> map, heap |-> h]
    ELSE LET m == map[i + 1]
         IN  IF h[m].offset >= offset
             THEN IF h[m].offset < offset + length
                  THEN spliceLoop_noStepBack(RemoveAt(map, i), h, i + 1,
                                  offset, length, stringLength)
                  ELSE spliceLoop_noStepBack(map,
                           [h EXCEPT ![m].offset = @ + stringLength - length],
                           i + 1, offset, length, stringLength)
             ELSE spliceLoop_noStepBack(map, h, i + 1,
                                        offset, length, stringLength)

\* spliceLoop that leaves a point exactly at offset where it is.
RECURSIVE spliceLoop_strictlyAfter(_, _, _, _, _, _)
spliceLoop_strictlyAfter(map, h, i, offset, length, stringLength) ==
    IF i >= Len(map) THEN [map |-> map, heap |-> h]
    ELSE LET m == map[i + 1]
         IN  IF h[m].offset > offset
             THEN IF h[m].offset < offset + length
                  THEN spliceLoop_strictlyAfter(RemoveAt(map, i), h, i,
                                  offset, length, stringLength)
                  ELSE spliceLoop_strictlyAfter(map,
                           [h EXCEPT ![m].offset = @ + stringLength - length],
                           i + 1, offset, length, stringLength)
             ELSE spliceLoop_strictlyAfter(map, h, i + 1,
                                           offset, length, stringLength)

\* Update the map: the loop over this.map, from index i (0-based) on.
RECURSIVE spliceLoop(_, _, _, _, _, _)
spliceLoop(map, h, i, offset, length, stringLength) ==
    IF i >= Len(map) THEN [map |-> map, heap |-> h]
    ELSE LET m == map[i + 1]
         IN  IF h[m].offset >= offset
             THEN IF h[m].offset < offset + length
                  THEN spliceLoop(RemoveAt(map, i), h, i,
                                  offset, length, stringLength)
                  ELSE spliceLoop(map,
                           [h EXCEPT ![m].offset = @ + stringLength - length],
                           i + 1, offset, length, stringLength)
             ELSE spliceLoop(map, h, i + 1, offset, length, stringLength)

\* Work out insert position.
spliceInsPos(map, item) ==
    LET insPos == binarySearch(map, spliceCompare, item)
    IN  IF insPos < 0 THEN (0 - insPos) - 1 ELSE insPos

\* splice(offset, length, string) on the buffer of slot b.  ins is a plain
\* string, [kind |-> "str", str |-> s], or the MappedSource of a slot,
\* [kind |-> "ms", slot |-> c]; c may be b itself, and then `map` is the very
\* array the loop has just updated.
splice(bs, h, b, offset, length, ins) ==
    LET this == bs[b]
        error == spliceCheck(Len(this.source), offset, length)
    IN  IF error # ""
        THEN [bufs |-> bs, heap |-> h, error |-> error]
        ELSE
          LET isMs == ins.kind = "ms"
              string == IF isMs THEN bs[ins.slot].source ELSE ins.str
              lp == spliceLoop(this.map, h, 0, offset, length, Len(string))
              bs1 == [bs EXCEPT ![b] =
                        MappedSource(
                            spliceSource(this.source, offset, length, string),
                            lp.map)]
              map == IF isMs THEN bs1[ins.slot].map ELSE <<>>
          IN  IF Len(map) > 0
              THEN LET insPos == spliceInsPos(lp.map,
                                     lp.heap[map[1]].offset + offset)
                       mapEntries == cloneShifted(lp.heap, map, offset,
                                                  LiveIds(bs1))
                   IN  [bufs  |-> [bs1 EXCEPT ![b].map =
                                     InsertAt(lp.map, insPos, mapEntries.ids)],
                        heap  |-> mapEntries.heap,
                        error |-> ""]
              ELSE [bufs |-> bs1, heap |-> lp.heap, error |-> ""]

\* insert(offset, string)
insert(bs, h, b, offset, string) == splice(bs, h, b, offset, 0, string)

\* delete(offset, length)
delete(bs, h, b, offset, length) ==
    splice(bs, h, b, offset, length, [kind |-> "str", str |-> <<>>])

\* append as an insertion at the start of the text.
append_atStart(bs, h, b, str) == splice(bs, h, b, 0, 0, str)

\* append(str)
append(bs, h, b, str) == splice(bs, h, b, Len(bs[b].source), 0, str)

\* The file system before save: neither file written.  A file system holds
\* at most one text file (name, source) and one map file (mapname, map).
NoFiles == [written |-> {}, name |-> <<>>, source |-> <<>>,
            mapname |-> <<>>, map |-> <<>>]

\* The start of the line save adds after the text,
\* "//# sourceMappingURL=<filename>.map"; it is one element of a text.
Marker == "//# sourceMappingURL="

\* A path is a sequence of names and "/"; filename + ".map".
MapFile(filename) == filename \o <<".map">>

\* The entries save hands to the generator, one per point and in the order
\* of this.map: the generated position is fromOffset(offset) over a LineMap
\* of the text with lineBase 1.
mappings(bs, h, b) ==
    LET this == bs[b]
        lineMap == LineMap(this.source, [lineBase |-> 1, columnBase |-> 0])
    IN  [i \in 1..Len(this.map) |->
            [generated |-> fromOffset(lineMap, h[this.map[i]].offset),
             name      |-> h[this.map[i]].name]]

\* save that keeps the text it wrote, marker line included, as this.source.
save_keepsMarker(bs, h, fs, b, filename, fail) ==
    LET this == bs[b]
        mapfile == MapFile(filename)
        finalSource == this.source \o <<"\n", Marker>> \o mapfile \o <<"\n">>
        marked == [bs EXCEPT ![b].source = finalSource]
    IN  IF fail = "source"
        THEN [bufs |-> bs, heap |-> h, files |-> fs, error |-> "EIO"]
        ELSE LET written == [fs EXCEPT !.written = @ \cup {"source"},
                                       !.name = filename,
                                       !.source = finalSource]
             IN  IF fail = "map"
                 THEN [bufs |-> marked, heap |-> h, files |-> written,
                       error |-> "EIO"]
                 ELSE [bufs |-> marked, heap |-> h,
                       files |-> [written EXCEPT
                                     !.written = @ \cup {"map"},
                                     !.mapname = mapfile,
                                     !.map = mappings(bs, h, b)],
                       error |-> ""]

\* save(filename): the text file is written to filename first, then the map
\* file to filename + ".map"; fail names the write that throws ("source",
\* "map") or is "none".
save(bs, h, fs, b, filename, fail) ==
    LET this == bs[b]
        mapfile == MapFile(filename)
        finalSource == this.source \o <<"\n", Marker>> \o mapfile \o <<"\n">>
    IN  IF fail = "source"
        THEN [bufs |-> bs, heap |-> h, files |-> fs, error |-> "EIO"]
        ELSE LET written == [fs EXCEPT !.written = @ \cup {"source"},
                                       !.name = filename,
                                       !.source = finalSource]
             IN  IF fail = "map"
                 THEN [bufs |-> bs, heap |-> h, files |-> written,
                       error |-> "EIO"]
                 ELSE [bufs |-> bs, heap |-> h,
                       files |-> [written EXCEPT
                                     !.written = @ \cup {"map"},
                                     !.mapname = mapfile,
                                     !.map = mappings(bs, h, b)],
                       error |-> ""]

\* The characters that end a line for the regular expression of
\* FromSourceFile: "." stops before them and "$" (flag m) matches there.
LineEnds == {"\n", "\r"}

\* /\/\/# sourceMappingURL=(.*)$/m.exec(source): the match as [index, last],
\* the 1-based positions of the marker and of the last element before the
\* end of its line, or index 0 when the text holds no marker.
MapNameMatch(source) ==
    IF \A i \in 1..Len(source) : source[i] # Marker
    THEN [index |-> 0, last |-> 0]
    ELSE LET index == CHOOSE i \in 1..Len(source) :
                          /\ source[i] = Marker
                          /\ \A k \in 1..(i - 1) : source[k] # Marker
             last == CHOOSE j \in index..Len(source) :
                          /\ \A k \in (index + 1)..j : source[k] \notin LineEnds
                          /\ j = Len(source) \/ source[j + 1] \in LineEnds
         IN  [index |-> index, last |-> last]

\* path.dirname(path.resolve(file)), relative to the working directory.
Dirname(file) ==
    IF \A k \in 1..Len(file) : file[k] # "/" THEN <<>>
    ELSE LET k == CHOOSE k \in 1..Len(file) :
                      /\ file[k] = "/"
                      /\ \A l \in (k + 1)..Len(file) : file[l] # "/"
         IN  SubSeq(file, 1, k - 1)

\* path.join(dir, name), relative to the working directory.
PathJoin(dir, name) ==
    IF dir = <<>> THEN name
    ELSE IF name = <<>> THEN dir
    ELSE dir \o <<"/">> \o name

\* The points FromSourceFile builds from the map file: one per mapping, in
\* the order eachMapping reports them (generated order, the order of the
\* file for a file written from a sorted buffer), the offset being
\* toOffset(generatedLine, generatedColumn) over a LineMap with lineBase 1.
loadedPoints(source, entries) ==
    LET lineMap == LineMap(source, [lineBase |-> 1, columnBase |-> 0])
    IN  [i \in 1..Len(entries) |->
            [offset |-> toOffset(lineMap, entries[i].generated.line,
                                 entries[i].generated.column.num).num,
             name   |-> entries[i].name]]

\* FromSourceFile that also drops the line terminator before the marker
\* when the marker starts a line after the first.
FromSourceFile_wholeLine(bs, h, fs, d, file) ==
    IF ~("source" \in fs.written /\ fs.name = file)
    THEN [bufs |-> bs, heap |-> h, error |-> "ENOENT"]
    ELSE
    LET read == fs.source
        m == MapNameMatch(read)
    IN  IF m.index = 0
        THEN [bufs |-> [bs EXCEPT ![d] = MappedSource(read, <<>>)],
              heap |-> h, error |-> ""]
        ELSE
        LET from == IF m.index > 1 /\ read[m.index - 1] \in LineEnds
                    THEN m.index - 2 ELSE m.index - 1
            source == SubSeq(read, 1, from)
                        \o SubSeq(read, m.last + 2, Len(read))
            fullMapName == PathJoin(Dirname(file),
                                    SubSeq(read, m.index + 1, m.last))
        IN  IF ~("map" \in fs.written /\ fs.mapname = fullMapName)
            THEN [bufs |-> bs, heap |-> h, error |-> "ENOENT"]
            ELSE
            LET pts == loadedPoints(source, fs.map)
                new == FreshIds(LiveIds([bs EXCEPT ![d].map = <<>>]),
                                Len(pts))
            IN  [bufs |-> [bs EXCEPT ![d] = MappedSource(source, new)],
                 heap |-> [id \in Ids |->
                             IF \E i \in 1..Len(new) : new[i] = id
                             THEN pts[CHOOSE i \in 1..Len(new) : new[i] = id]
                             ELSE h[id]],
                 error |-> ""]

\* MappedSource.FromSourceFile(file), the result assigned to variable d.
\* Reading a file that is not there throws.
FromSourceFile(bs, h, fs, d, file) ==
    IF ~("source" \in fs.written /\ fs.name = file)
    THEN [bufs |-> bs, heap |-> h, error |-> "ENOENT"]
    ELSE
    LET read == fs.source
        m == MapNameMatch(read)
    IN  IF m.index = 0
        THEN [bufs |-> [bs EXCEPT ![d] = MappedSource(read, <<>>)],
              heap |-> h, error |-> ""]
        ELSE
        LET source == SubSeq(read, 1, m.index - 1)
                        \o SubSeq(read, m.last + 2, Len(read))
            fullMapName == PathJoin(Dirname(file),
                                    SubSeq(read, m.index + 1, m.last))
        IN  IF ~("map" \in fs.written /\ fs.mapname = fullMapName)
            THEN [bufs |-> bs, heap |-> h, error |-> "ENOENT"]
            ELSE
            LET pts == loadedPoints(source, fs.map)
                new == FreshIds(LiveIds([bs EXCEPT ![d].map = <<>>]),
                                Len(pts))
            IN  [bufs |-> [bs EXCEPT ![d] = MappedSource(source, new)],
                 heap |-> [id \in Ids |->
                             IF \E i \in 1..Len(new) : new[i] = id
                             THEN pts[CHOOSE i \in 1..Len(new) : new[i] = id]
                             ELSE h[id]],
                 error |-> ""]

\* --------------------------------------------------------- object identity
\* Objects are named in order of first reference from the buffers, and an
\* object nothing refers to is gone: two heaps that differ only in how the
\* objects are named are the same program state.
Dead == [offset |-> 0, name |-> <<0, 0>>]

Refs(bs) == bs[1].map \o bs[2].map

Rank(seq, x) ==
    LET first == CHOOSE i \in 1..Len(seq) :
                     seq[i] = x /\ \A j \in 1..(i - 1) : seq[j] # x
    IN  Cardinality({seq[j] : j \in 1..first})

Normalize(bs, h) ==
    LET refs == Refs(bs)
        live == Range(refs)
        inv == [j \in 1..Cardinality(live) |->
                   CHOOSE x \in live : Rank(refs, x) = j]
    IN  [bufs |-> [s \in Slots |->
                     MappedSource(bs[s].source,
                         [i \in 1..Len(bs[s].map) |->
                             Rank(refs, bs[s].map[i])])],
         heap |-> [j \in Ids |->
                     IF j <= Cardinality(live) THEN h[inv[j]] ELSE Dead]]

\* The text and the points of slot s, as values.
Points(bs, h, s) == [i \in 1..Len(bs[s].map) |-> h[bs[s].map[i]]]
Offsets(bs, h, s) == [i \in 1..Len(bs[s].map) |-> h[bs[s].map[i]].offset]
View(bs, h, s) == [source |-> bs[s].source, map |-> Points(bs, h, s)]

\* ------------------------------------------------------------------- state
Inputs == [kind : {"str"}, str : Strings] \cup [kind : {"ms"}, slot : Slots]

IsSorted(offs) == \A i \in 1..(Len(offs) - 1) : offs[i] <= offs[i + 1]

\* The sorted sequences of at most MaxPts offsets inside a text of length n.
SortedOffsets(n) ==
    {o \in UNION {[1..k -> 0..n] : k \in 0..MaxPts} : IsSorted(o)}

\* The state after the two buffers are constructed from texts t1, t2 and
\* points at offsets o1, o2; the name of a point is its origin <<slot, index>>.
ConstructedBufs(t1, o1, t2, o2) ==
    /\ bufs = [s \in Slots |->
                 IF s = 1 THEN MappedSource(t1, [i \in 1..Len(o1) |-> i])
                 ELSE MappedSource(t2, [i \in 1..Len(o2) |-> Len(o1) + i])]
    /\ heap = [id \in Ids |->
                 IF id <= Len(o1)
                 THEN [offset |-> o1[id], name |-> <<1, id>>]
                 ELSE IF id <= Len(o1) + Len(o2)
                      THEN [offset |-> o2[id - Len(o1)],
                            name |-> <<2, id - Len(o1)>>]
                      ELSE Dead]
    /\ lastOp = [op |-> "new"]
    /\ pc = "constructed"

\* The same with nothing on disk and no LineMap in use.
Constructed(t1, o1, t2, o2) ==
    /\ ConstructedBufs(t1, o1, t2, o2)
    /\ ExtraIdle
    /\ lm = LineMap(<<>>, [lineBase |-> 0, columnBase |-> 0])
    /\ lmOp = [op |-> "none"]
    /\ files = NoFiles

\* Every first buffer within the bounds and every fragment of MaxFrag
\* characters, each with a sorted mapping sequence whose offsets lie inside
\* its text.
Init ==
    \E n1 \in 0..MaxLen :
        \E o1 \in SortedOffsets(n1), o2 \in SortedOffsets(MaxFrag) :
            Constructed(Text(1, n1), o1, Text(2, MaxFrag), o2)

\* The state after a call that left r = [bufs, heap, error].
Return(r, op) ==
    LET n == Normalize(r.bufs, r.heap)
    IN  /\ bufs' = n.bufs
        /\ heap' = n.heap
        /\ lastOp' = op
        /\ UNCHANGED <<lm, lmOp, files>>
        /\ UNCHANGED extraVars

CallSplice(b, offset, length, ins) ==
    LET r == splice(bufs, heap, b, offset, length, ins)
    IN  Return(r, [op |-> "splice", self |-> b, offset |-> offset,
                   length |-> length, ins |-> ins, error |-> r.error])

CallInsert(b, offset, ins) ==
    LET r == insert(bufs, heap, b, offset, ins)
    IN  Return(r, [op |-> "insert", self |-> b, offset |-> offset,
                   length |-> 0, ins |-> ins, error |-> r.error])

CallDelete(b, offset, length) ==
    LET r == delete(bufs, heap, b, offset, length)
    IN  Return(r, [op |-> "delete", self |-> b, offset |-> offset,
                   length |-> length,
                   ins |-> [kind |-> "str", str |-> <<>>],
                   error |-> r.error])

CallAppend(b, ins) ==
    LET r == append(bufs, heap, b, ins)
    IN  Return(r, [op |-> "append", self |-> b,
                   offset |-> Len(bufs[b].source), length |-> 0,
                   ins |-> ins, error |-> r.error])

\* d = b.substring(start, end): the returned buffer replaces the one slot d
\* held.
CallSubstring(b, start, end, d) ==
    LET r == substring(bufs, heap, b, start, end)
    IN  Return([bufs |-> [bufs EXCEPT ![d] = r.ms], heap |-> r.heap,
                error |-> ""],
               [op |-> "substring", self |-> b, start |-> start,
                end |-> end, dest |-> d, error |-> ""])

\* One call on freshly constructed buffers.
Next ==
    /\ pc = "constructed"
    /\ pc' = "called"
    /\ \/ \E b \in Slots, offset \in Args, length \in Lengths, ins \in Inputs :
             CallSplice(b, offset, length, ins)
       \/ \E b \in Slots, offset \in Args, ins \in Inputs :
             CallInsert(b, offset, ins)
       \/ \E b \in Slots, offset \in Args, length \in Lengths :
             CallDelete(b, offset, length)
       \/ \E b \in Slots, ins \in Inputs : CallAppend(b, ins)
       \/ \E b \in Slots, start \in Args, end \in Args, d \in Slots :
             CallSubstring(b, start, end, d)

Spec == Init /\ [][Next]_vars

\* A program that derives one buffer from the other, by substring or by
\* splicing one into the other, and then changes one of the two.  The first
\* buffer starts at full length with MaxPts points at different offsets,
\* the second with MaxPts points from offset 0 on.
InitAlias ==
    \E o1 \in SortedOffsets(MaxLen) :
        /\ Len(o1) = MaxPts
        /\ o1[1] <= 1
        /\ \A i \in 1..(MaxPts - 1) : o1[i] < o1[i + 1]
        /\ Constructed(Text(1, MaxLen), o1, Text(2, MaxFrag),
                       [i \in 1..MaxPts |-> Clamp(i - 1, MaxFrag)])

Derive ==
    /\ pc = "constructed"
    /\ pc' = "derived"
    /\ \E b \in Slots, c \in Slots :
          /\ b # c
          /\ \/ \E start \in Args, end \in Args :
                   CallSubstring(b, start, end, c)
             \/ \E offset \in Args, length \in Lengths :
                   CallSplice(b, offset, length, [kind |-> "ms", slot |-> c])
             \/ \E offset \in Args :
                   CallInsert(b, offset, [kind |-> "ms", slot |-> c])
             \/ CallAppend(b, [kind |-> "ms", slot |-> c])

Mutate ==
    /\ pc = "derived"
    /\ pc' = "mutated"
    /\ \/ \E b \in Slots, offset \in Args, length \in Lengths, ins \in Inputs :
             CallSplice(b, offset, length, ins)
       \/ \E b \in Slots, offset \in Args, ins \in Inputs :
             CallInsert(b, offset, ins)
       \/ \E b \in Slots, offset \in Args, length \in Lengths :
             CallDelete(b, offset, length)
       \/ \E b \in Slots, ins \in Inputs : CallAppend(b, ins)

NextAlias == Derive \/ Mutate

SpecAlias == InitAlias /\ [][NextAlias]_vars

\* ------------------------------------------------------- save as a state
\* Texts with line terminators in them, cut to n characters.
SaveAlphabet(s) == IF s = 1 THEN <<"a", "\n", "b", "\n", "c", "\n">>
                   ELSE <<"\n", "x", "\n", "y">>
SaveText(s, n) == SubSeq(SaveAlphabet(s), 1, n)

Failures == {"none", "source", "map"}

\* Two buffers of full length with MaxPts points each, sorted and inside
\* the text.
InitSave ==
    \E o1 \in SortedOffsets(MaxLen), o2 \in SortedOffsets(MaxFrag) :
        /\ Len(o1) = MaxPts
        /\ Len(o2) = MaxPts
        /\ Constructed(SaveText(1, MaxLen), o1, SaveText(2, MaxFrag), o2)

\* One call on the first buffer, or a substring of it into either variable.
Operate ==
    /\ pc = "constructed"
    /\ pc' = "called"
    /\ \/ \E offset \in Args, length \in Lengths, ins \in Inputs :
             CallSplice(1, offset, length, ins)
       \/ \E offset \in Args, ins \in Inputs : CallInsert(1, offset, ins)
       \/ \E offset \in Args, length \in Lengths :
             CallDelete(1, offset, length)
       \/ \E ins \in Inputs : CallAppend(1, ins)
       \/ \E start \in Args, end \in Args, d \in Slots :
             CallSubstring(1, start, end, d)

\* The file cmdDemod and cmdFlatten save to, in the working directory.
OutFile == <<"f">>

\* bufs[b].save(filename), the write named by fail throwing.
CallSave(b, filename, fail) ==
    LET r == save(bufs, heap, files, b, filename, fail)
        n == Normalize(r.bufs, r.heap)
    IN  /\ pc' = "saved"
        /\ bufs' = n.bufs
        /\ heap' = n.heap
        /\ files' = r.files
        /\ lastOp' = [op |-> "save", self |-> b, filename |-> filename,
                      fail |-> fail, error |-> r.error, after |-> lastOp]
        /\ UNCHANGED <<lm, lmOp>>
        /\ UNCHANGED extraVars

NextSave ==
    \/ Operate
    \/ /\ pc = "called"
       /\ \E b \in Slots, fail \in Failures : CallSave(b, OutFile, fail)

SpecSave == InitSave /\ [][NextSave]_vars

\* ----------------------------------------------- save and load as a state
\* What a text on disk or in a buffer to save is made of.
FileChars == {"a", "\n", "\r", Marker}
FileTexts == UNION {[1..n -> FileChars] : n \in 0..MaxLen}

\* Texts on disk have room for a marker line after a text.
DiskTexts == UNION {[1..n -> FileChars] : n \in 0..(MaxLen + 2)}

\* The files a text is saved to and loaded from: one in the working
\* directory, one in a directory below it.
Filenames == {<<"f">>, <<"d", "/", "f">>}

\* Files written by another program: a text file "f" and, or not, the empty
\* map file its marker may name.
DiskFiles ==
    {[written |-> w, name |-> <<"f">>, source |-> t,
      mapname |-> <<"a">>, map |-> <<>>] :
        w \in {{"source"}, {"source", "map"}}, t \in DiskTexts}

\* Either a first buffer of any text, with no point or with one point
\* inside the text, and nothing on disk; or two empty buffers and files on
\* disk.
InitLoad ==
    /\ ExtraIdle
    /\ lm = LineMap(<<>>, [lineBase |-> 0, columnBase |-> 0])
    /\ lmOp = [op |-> "none"]
    /\ \/ /\ files = NoFiles
          /\ \E t \in FileTexts :
                \E o1 \in SortedOffsets(Len(t)) :
                    /\ Len(o1) <= 1
                    /\ ConstructedBufs(t, o1, <<>>, <<>>)
       \/ /\ files \in DiskFiles
          /\ ConstructedBufs(<<>>, <<>>, <<>>, <<>>)

\* bufs[2] = MappedSource.FromSourceFile(file)
CallFromSourceFile(file) ==
    LET r == FromSourceFile(bufs, heap, files, 2, file)
        n == Normalize(r.bufs, r.heap)
    IN  /\ pc \in {"constructed", "saved"}
        /\ pc' = "loaded"
        /\ bufs' = n.bufs
        /\ heap' = n.heap
        /\ lastOp' = [op |-> "load", file |-> file, dest |-> 2,
                      error |-> r.error, after |-> lastOp]
        /\ UNCHANGED <<lm, lmOp, files>>
        /\ UNCHANGED extraVars

NextLoad ==
    \/ /\ pc = "constructed"
       /\ files = NoFiles
       /\ \E filename \in Filenames, fail \in Failures :
             CallSave(1, filename, fail)
    \/ \E file \in Filenames : CallFromSourceFile(file)

SpecLoad == InitLoad /\ [][NextLoad]_vars

\* ---------------------------------------------------- programs at rest
\* The MappedSource variables, the LineMap and the disk as they are for a
\* program that uses none of them.
CoreIdle ==
    /\ ConstructedBufs(<<>>, <<>>, <<>>, <<>>)
    /\ lm = LineMap(<<>>, [lineBase |-> 0, columnBase |-> 0])
    /\ lmOp = [op |-> "none"]
    /\ files = NoFiles

\* ------------------------------------------------------ loadOriginalFile
\* The names loadOriginalFile is asked for.  A SourceFile is stood for by
\* the name of the file it was loaded from.
OriginalNames == {"p", "q", "r"}

\* loadOriginalFile(sourceFileName) in a state [lastOriginalFileName,
\* lastOriginalFile], exists telling whether SourceFile.fromFile finds the
\* file: the state left, and the value returned or the error thrown.
loadOriginalFile(name, file, sourceFileName, exists) ==
    IF name = sourceFileName
    THEN [lastOriginalFileName |-> name, lastOriginalFile |-> file,
          result |-> file, error |-> ""]
    ELSE IF exists
         THEN [lastOriginalFileName |-> sourceFileName,
               lastOriginalFile |-> sourceFileName,
               result |-> sourceFileName, error |-> ""]
         ELSE [lastOriginalFileName |-> sourceFileName,
               lastOriginalFile |-> file,
               result |-> "undefined", error |-> "ENOENT"]

\* utils.js as loaded: lastOriginalFileName = null, lastOriginalFile unset,
\* and any set of original files on disk.
InitCache ==
    /\ CoreIdle
    /\ NoDeletions /\ NoFn /\ NoModules /\ NoTokenizer
    /\ lastOriginalFileName = "null"
    /\ lastOriginalFile = "undefined"
    /\ originals \in SUBSET OriginalNames
    /\ loadOp = [op |-> "none"]

cacheRest == <<coreVars, deletions, fn, modules, tokenizer>>

CallLoadOriginalFile(sourceFileName) ==
    LET r == loadOriginalFile(lastOriginalFileName, lastOriginalFile,
                              sourceFileName, sourceFileName \in originals)
    IN  /\ lastOriginalFileName' = r.lastOriginalFileName
        /\ lastOriginalFile' = r.lastOriginalFile
        /\ loadOp' = [op |-> "loadOriginalFile", name |-> sourceFileName,
                      result |-> r.result, error |-> r.error]
        /\ UNCHANGED originals
        /\ UNCHANGED cacheRest

\* Another program writes or removes an original file.
WriteOriginal(name) ==
    /\ name \notin originals
    /\ originals' = originals \cup {name}
    /\ UNCHANGED <<lastOriginalFileName, lastOriginalFile, loadOp>>
    /\ UNCHANGED cacheRest

RemoveOriginal(name) ==
    /\ name \in originals
    /\ originals' = originals \ {name}
    /\ UNCHANGED <<lastOriginalFileName, lastOriginalFile, loadOp>>
    /\ UNCHANGED cacheRest

NextCache ==
    \/ \E name \in OriginalNames : CallLoadOriginalFile(name)
    \/ \E name \in OriginalNames : WriteOriginal(name)
    \/ \E name \in OriginalNames : RemoveOriginal(name)

SpecCache == InitCache /\ [][NextCache]_vars

\* ------------------------------------------------- textUtils as a state
ScanChars == {"a", " ", "\n", "\r"}
ScanTexts == UNION {[1..n -> ScanChars] : n \in 0..MaxLine}

\* A string and a starting index inside it or at its end.
InitText ==
    /\ CoreIdle
    /\ NoDeletions /\ NoCache /\ NoModules /\ NoTokenizer
    /\ \E str \in ScanTexts, from \in 0..MaxLine :
          /\ from <= Len(str)
          /\ fn = [op |-> "input", str |-> str, from |-> from]

fnRest == <<coreVars, deletions, lastOriginalFileName, lastOriginalFile,
            originals, loadOp, modules, tokenizer>>

CallFindEolWs ==
    /\ fn.op = "input"
    /\ fn' = [op |-> "find_eol_ws", str |-> fn.str, from |-> fn.from,
              result |-> find_eol_ws(fn.str, fn.from)]
    /\ UNCHANGED fnRest

CallSkipEol ==
    /\ fn.op = "input"
    /\ fn' = [op |-> "skip_eol", str |-> fn.str, from |-> fn.from,
              result |-> skip_eol(fn.str, fn.from)]
    /\ UNCHANGED fnRest

CallFindNextLineWs ==
    /\ fn.op = "input"
    /\ fn' = [op |-> "find_next_line_ws", str |-> fn.str, from |-> fn.from,
              result |-> find_next_line_ws(fn.str, fn.from)]
    /\ UNCHANGED fnRest

NextText == CallFindEolWs \/ CallSkipEol \/ CallFindNextLineWs

SpecText == InitText /\ [][NextText]_vars

\* ---------------------------------------------- binarySearch as a state
\* A comparator that is NaN on every pair, as (a, b) => a - b is on objects.
nanCompare == [a \in Int, b \in Int |-> NaN]

\* The comparators binarySearch is called with, by name.
Comparators == {"number", "object"}
Comparator(name) == IF name = "number" THEN lineCompare ELSE nanCompare

\* The array is sorted consistently with the comparator: no element compares
\* greater than a later one.
Consistent(array, compare_items) ==
    \A i \in 1..Len(array), j \in 1..Len(array) :
        i < j => LET c == compare_items[array[i], array[j]]
                 IN  c.nan \/ c.num <= 0

SearchValues == 0..MaxLen
SearchArrays == UNION {[1..n -> SearchValues] : n \in 0..(MaxLen + 2)}

\* Any consistently sorted array of at most MaxLen + 2 numbers, any
\* comparator and any item from one below the values to one above.
InitSearch ==
    /\ CoreIdle
    /\ NoDeletions /\ NoCache /\ NoModules /\ NoTokenizer
    /\ \E array \in SearchArrays, c \in Comparators,
          item \in (0 - 1)..(MaxLen + 1) :
          /\ Consistent(array, Comparator(c))
          /\ fn = [op |-> "input", array |-> array, compare |-> c,
                   item |-> item]

CallBinarySearch ==
    /\ fn.op = "input"
    /\ fn' = [op |-> "binarySearch", array |-> fn.array,
              compare |-> fn.compare, item |-> fn.item,
              result |-> binarySearch(fn.array, Comparator(fn.compare),
                                      fn.item)]
    /\ UNCHANGED fnRest

NextSearch == CallBinarySearch

SpecSearch == InitSearch /\ [][NextSearch]_vars

\* ------------------------------------------------- tokenizer.readString
\* The characters readString tells apart: the delimiters, the backslash, an
\* escape letter and a letter that is no escape.
TokenChars == {"\"", "'", "\\", "n", "x"}
TokenTexts == UNION {[1..n -> TokenChars] : n \in 0..MaxLine}
\* The three delimiters; the backtick is written by its name.
Delimiters == {"\"", "'", "backtick"}

\* The character an escape letter stands for, "none" for any other
\* character (undefined, past the end, included).
Escape(c) ==
    IF c = "\\" THEN "\\"
    ELSE IF c = "'" THEN "'"
    ELSE IF c = "\"" THEN "\""
    ELSE IF c = "t" THEN "\t"
    ELSE IF c = "r" THEN "\r"
    ELSE IF c = "n" THEN "\n"
    ELSE IF c = "0" THEN "NUL"
    ELSE "none"

\* decoded += c.  A call that returns appends at most one character for
\* each character of str; beyond that the value is not told apart.
Decoded(decoded, c, str) ==
    IF Len(decoded) < Len(str) THEN Append(decoded, c) ELSE decoded

\* tokenizer(str, pos) with any string and any position in it.
InitTokenizer ==
    /\ CoreIdle
    /\ NoDeletions /\ NoCache /\ NoFn /\ NoModules
    /\ \E str \in TokenTexts, pos \in 0..MaxLine :
          /\ pos <= Len(str)
          /\ tokenizer = [op |-> "tokenizer", str |-> str, pos |-> pos,
                          before |-> pos, start |-> pos,
                          delim |-> "undefined", decoded |-> <<>>,
                          odd |-> FALSE,
                          result |-> [defined |-> FALSE]]

tokenizerRest == <<coreVars, deletions, lastOriginalFileName,
                   lastOriginalFile, originals, loadOp, fn, modules>>

\* readString up to its loop: no opening quote, or the delimiter is read.
ReadStringEnter ==
    /\ tokenizer.op = "tokenizer"
    /\ LET str == tokenizer.str
           pos == tokenizer.pos
       IN  IF StrAt(str, pos) \notin Delimiters
           THEN tokenizer' = [tokenizer EXCEPT !.op = "returned",
                                               !.before = pos]
           ELSE tokenizer' = [tokenizer EXCEPT !.op = "reading",
                                               !.before = pos,
                                               !.start = pos,
                                               !.delim = StrAt(str, pos),
                                               !.pos = pos + 1,
                                               !.decoded = <<>>]
    /\ UNCHANGED tokenizerRest

\* One turn of the loop of readString; odd is the parity of the turns taken,
\* so that a turn is a step even when decoded is no longer told apart.
ReadStringLoop ==
    /\ tokenizer.op = "reading"
    /\ LET str == tokenizer.str
           pos == tokenizer.pos
       IN  /\ pos < Len(str)
           /\ StrAt(str, pos) # tokenizer.delim
           /\ IF StrAt(str, pos) = "\\"
              THEN IF Escape(StrAt(str, pos + 1)) # "none"
                   THEN tokenizer' =
                          [tokenizer EXCEPT
                             !.odd = ~@,
                             !.pos = pos + 2,
                             !.decoded = Decoded(@, Escape(StrAt(str, pos + 1)),
                                                 str)]
                   ELSE tokenizer' =
                          [tokenizer EXCEPT
                             !.odd = ~@,
                             !.pos = (pos + 1) - 1,
                             !.decoded = Decoded(@, "\\", str)]
              ELSE tokenizer' =
                     [tokenizer EXCEPT
                        !.odd = ~@,
                        !.pos = pos + 1,
                        !.decoded = Decoded(@, StrAt(str, pos), str)]
    /\ UNCHANGED tokenizerRest

\* readString after its loop: unterminated, or the closing delimiter is read.
ReadStringExit ==
    /\ tokenizer.op = "reading"
    /\ LET str == tokenizer.str
           pos == tokenizer.pos
       IN  /\ ~(pos < Len(str) /\ StrAt(str, pos) # tokenizer.delim)
           /\ IF StrAt(str, pos) # tokenizer.delim
              THEN tokenizer' = [tokenizer EXCEPT !.op = "returned",
                                                  !.pos = tokenizer.start]
              ELSE tokenizer' =
                     [tokenizer EXCEPT
                        !.op = "returned",
                        !.pos = pos + 1,
                        !.result =
                           [defined |-> TRUE,
                            raw     |-> SubSeq(str, tokenizer.start + 1,
                                               pos + 1),
                            value   |-> tokenizer.decoded]]
    /\ UNCHANGED tokenizerRest

NextTokenizer == ReadStringEnter \/ ReadStringLoop \/ ReadStringExit

\* A call that is running goes on running.
SpecTokenizer ==
    InitTokenizer /\ [][NextTokenizer]_vars /\ WF_vars(NextTokenizer)

\* --------------------------------------------- resolveExportDeclarations
MaxMods == 2     \* number of modules in moduleList

ModuleIds == 1..MaxMods

\* The export entries getModuleExports builds for module m: a declaration
\* of the module itself (with a definition), or "export * from" another
\* module, 0 standing for a name getModule does not know.
\* (An entry for "export { x } from" is never built: line 217 assigns to
\* the undeclared variable symbols, which throws in module code.)
Definition(m) == [kind |-> "definition", of |-> m]
StarFrom(j) == [kind |-> "star", from |-> j]

\* The export lists of module m: at most one declaration and at most one
\* "export * from", in either order.
ExportLists(m) ==
    {<<>>, <<Definition(m)>>}
    \cup UNION {{<<StarFrom(j)>>,
                 <<Definition(m), StarFrom(j)>>,
                 <<StarFrom(j), Definition(m)>>} : j \in 0..MaxMods}

\* if (module.resolvedExports): an array, empty or not, is truthy.
Resolved_nonEmpty(module) ==
    module.resolvedExports.defined /\ module.resolvedExports.items # <<>>

Resolved(module) == module.resolvedExports.defined

\* resolvedExports.add(e) on a Set, kept in insertion order.
SetAdd(set, e) ==
    IF \E i \in 1..Len(set) : set[i] = e THEN set ELSE Append(set, e)

RECURSIVE SetAddAll(_, _)
SetAddAll(set, es) ==
    IF es = <<>> THEN set
    ELSE SetAddAll(SetAdd(set, Head(es)), Tail(es))

\* The call resolveExportDeclarationsForModule(list[m]) up to its loop: it
\* returns at once for a resolved module, and otherwise marks the module and
\* starts the loop over its exports in a new frame.
Enter(g, m) ==
    IF Resolved(g.list[m]) THEN g
    ELSE [g EXCEPT
            !.list[m].resolvedExports = [defined |-> TRUE, items |-> <<>>],
            !.list[m].runs = @ + 1,
            !.stack = Append(@, [module |-> m, e |-> 1,
                                 resolvedExports |-> <<>>])]

\* moduleList as built, nothing resolved, resolveExportDeclarations called.
InitModules ==
    /\ CoreIdle
    /\ NoDeletions /\ NoCache /\ NoFn /\ NoTokenizer
    /\ \E exports \in [ModuleIds -> UNION {ExportLists(m) : m \in ModuleIds}] :
          /\ \A m \in ModuleIds : exports[m] \in ExportLists(m)
          /\ modules = [list |-> [m \in ModuleIds |->
                                    [exports |-> exports[m],
                                     resolvedExports |->
                                        [defined |-> FALSE, items |-> <<>>],
                                     runs |-> 0]],
                        stack |-> <<>>,
                        next |-> 1,
                        status |-> "running"]

modulesRest == <<coreVars, deletions, lastOriginalFileName,
                 lastOriginalFile, originals, loadOp, fn, tokenizer>>

\* for (let m of moduleList) resolveExportDeclarationsForModule(m);
ResolveNextModule ==
    /\ modules.status = "running"
    /\ modules.stack = <<>>
    /\ modules.next <= MaxMods
    /\ modules' = [Enter(modules, modules.next) EXCEPT !.next = @ + 1]
    /\ UNCHANGED modulesRest

\* One export of the module on top of the stack.  An "export * from" a
\* module not yet resolved first runs the call for that module; the loop
\* goes on with the same export when that call has returned.
ResolveExport ==
    /\ modules.status = "running"
    /\ modules.stack # <<>>
    /\ Len(modules.stack) <= MaxMods
    /\ LET depth == Len(modules.stack)
           frame == modules.stack[depth]
           module == modules.list[frame.module]
       IN  /\ frame.e <= Len(module.exports)
           /\ LET e == module.exports[frame.e]
              IN  IF e.kind = "definition"
                  THEN modules' =
                         [modules EXCEPT
                            !.stack[depth].resolvedExports = SetAdd(@, e),
                            !.stack[depth].e = @ + 1]
                  ELSE IF e.from = 0
                  THEN modules' = [modules EXCEPT !.stack[depth].e = @ + 1]
                  ELSE IF ~Resolved(modules.list[e.from])
                  THEN modules' = Enter(modules, e.from)
                  ELSE modules' =
                         [modules EXCEPT
                            !.stack[depth].resolvedExports =
                               SetAddAll(@, modules.list[e.from]
                                               .resolvedExports.items),
                            !.stack[depth].e = @ + 1]
    /\ UNCHANGED modulesRest

\* module.resolvedExports = Array.from(resolvedExports); and the return.
ResolveReturn ==
    /\ modules.status = "running"
    /\ modules.stack # <<>>
    /\ LET depth == Len(modules.stack)
           frame == modules.stack[depth]
       IN  /\ frame.e > Len(modules.list[frame.module].exports)
           /\ modules' =
                [modules EXCEPT
                   !.list[frame.module].resolvedExports.items =
                      frame.resolvedExports,
                   !.stack = SubSeq(@, 1, depth - 1)]
    /\ UNCHANGED modulesRest

\* resolveExportDeclarations returns.
ResolveDone ==
    /\ modules.status = "running"
    /\ modules.stack = <<>>
    /\ modules.next > MaxMods
    /\ modules' = [modules EXCEPT !.status = "done"]
    /\ UNCHANGED modulesRest

NextModules ==
    ResolveNextModule \/ ResolveExport \/ ResolveReturn \/ ResolveDone

\* A call that is running goes on running.
SpecModules ==
    InitModules /\ [][NextModules]_vars /\ WF_vars(NextModules)

\* ------------------------------------------------------- LineMap as state
LineChars == {"a", "\n", "\r"}
LineTexts == UNION {[1..n -> LineChars] : n \in 0..MaxLine}
Bases == {0, 1}
LineOptions == [lineBase : Bases, columnBase : Bases]

\* Offsets asked for: from one below 0 to one beyond the longest text.
OffsetArgs == (0 - 1)..(MaxLine + 1)

\* Lines and columns asked for: from one below the smallest base to one
\* beyond the largest line (column) a text of MaxLine characters has.
LineArgs == (0 - 1)..(MaxLine + 3)
ColumnArgs == (0 - 1)..(MaxLine + 2)

\* A LineMap built from any text within the bounds, with any bases.
InitLineMap ==
    \E str \in LineTexts, options \in LineOptions :
        /\ lm = LineMap(str, options)
        /\ lmOp = [op |-> "new", str |-> str]
        /\ bufs = [s \in Slots |-> MappedSource(<<>>, <<>>)]
        /\ heap = [id \in Ids |-> Dead]
        /\ lastOp = [op |-> "new"]
        /\ pc = "constructed"
        /\ files = NoFiles
        /\ ExtraIdle

\* lm.fromOffset(offset), with any offset on a new LineMap, or with the
\* offset the preceding toOffset returned (chained).
CallFromOffset(offset) ==
    /\ \/ lmOp.op = "new"
       \/ lmOp.op = "toOffset" /\ lmOp.result = Num(offset)
    /\ lmOp' = [op |-> "fromOffset", chained |-> (lmOp.op # "new"),
                offset |-> offset, result |-> fromOffset(lm, offset)]
    /\ UNCHANGED <<lm, bufs, heap, lastOp, pc, files>>
    /\ UNCHANGED extraVars

\* lm.toOffset(line, column), with any position on a new LineMap, or with
\* the position the preceding fromOffset returned (chained).
CallToOffset(line, column) ==
    /\ \/ lmOp.op = "new"
       \/ /\ lmOp.op = "fromOffset"
          /\ lmOp.result = [line |-> line, column |-> Num(column)]
    /\ lmOp' = [op |-> "toOffset", chained |-> (lmOp.op # "new"),
                line |-> line, column |-> column,
                result |-> toOffset(lm, line, column)]
    /\ UNCHANGED <<lm, bufs, heap, lastOp, pc, files>>
    /\ UNCHANGED extraVars

NextLineMap ==
    \/ \E offset \in OffsetArgs : CallFromOffset(offset)
    \/ \E line \in LineArgs, column \in ColumnArgs : CallToOffset(line, column)

SpecLineMap == InitLineMap /\ [][NextLineMap]_vars

\* ------------------------------------------------- batches of deletions
\* removeImports and writeDeclaration collect the ranges to delete while
\* walking the syntax tree, then sort, check and delete them in one loop.
\* A range is [pos |-> p, end |-> e]; positions are counted from the start
\* of the buffer (d.pos - module.bodyStart in the code).
BatchLen == MaxLen + 2
MaxDels == MaxPts + 1

\* The ranges a walk can push: each covers a node to the start of the next
\* line, so it is not empty.
Ranges == {r \in [pos : 0..BatchLen, end : 0..BatchLen] : r.pos < r.end}

\* deletions.sort((a,b) => b.pos - a.pos), one element: d goes after every
\* element whose pos is not smaller (the sort is stable).
sortInsert(sorted, d) ==
    LET k == Cardinality({i \in 1..Len(sorted) : sorted[i].pos >= d.pos})
    IN  SubSeq(sorted, 1, k) \o <<d>> \o SubSeq(sorted, k + 1, Len(sorted))

RECURSIVE sortFrom(_, _, _)
sortFrom(dels, i, sorted) ==
    IF i > Len(dels) THEN sorted
    ELSE sortFrom(dels, i + 1, sortInsert(sorted, dels[i]))

\* The sort in ascending order of pos.
sortDeletions_ascending(dels) ==
    LET desc == sortFrom(dels, 1, <<>>)
    IN  [i \in 1..Len(desc) |-> desc[Len(desc) + 1 - i]]

\* deletions.sort((a,b) => b.pos - a.pos)
sortDeletions(dels) == sortFrom(dels, 1, <<>>)

Overlapping == "overlapping delete ranges"

\* for (let d of deletions): the turns of the loop from the i-th element on.
\* prev is the element before it.  issued counts the deletes already called.
RECURSIVE deleteLoop(_, _, _, _)
deleteLoop(bs, h, dels, i) ==
    IF i > Len(dels)
    THEN [bufs |-> bs, heap |-> h, error |-> "", issued |-> i - 1]
    ELSE LET d == dels[i]
         IN  IF i > 1 /\ d.end > dels[i - 1].pos
             THEN [bufs |-> bs, heap |-> h, error |-> Overlapping,
                   issued |-> i - 1]
             ELSE LET r == delete(bs, h, 1, d.pos, d.end - d.pos)
                  IN  IF r.error # ""
                      THEN [bufs |-> r.bufs, heap |-> r.heap,
                            error |-> r.error, issued |-> i - 1]
                      ELSE deleteLoop(r.bufs, r.heap, dels, i + 1)

\* removeImports(module), after the walk has filled deletions.
removeImports(bs, h, dels) == deleteLoop(bs, h, sortDeletions(dels), 1)

\* A buffer of BatchLen characters with one mapping point at every offset.
InitBatch ==
    /\ ConstructedBufs(Text(1, BatchLen),
                       [i \in 1..(BatchLen + 1) |-> i - 1], <<>>, <<>>)
    /\ lm = LineMap(<<>>, [lineBase |-> 0, columnBase |-> 0])
    /\ lmOp = [op |-> "none"]
    /\ files = NoFiles
    /\ ExtraIdle

\* walk: deletions.push({ pos, end })
PushDeletion(d) ==
    /\ pc = "constructed"
    /\ Len(deletions) < MaxDels
    /\ deletions' = Append(deletions, d)
    /\ UNCHANGED <<coreVars, lastOriginalFileName, lastOriginalFile,
                   originals, loadOp, fn, modules, tokenizer>>

\* The rest of removeImports: sort, then check and delete in turn.
CallRemoveImports ==
    LET r == removeImports(bufs, heap, deletions)
        n == Normalize(r.bufs, r.heap)
    IN  /\ pc = "constructed"
        /\ bufs' = n.bufs
        /\ heap' = n.heap
        /\ lastOp' = [op |-> "removeImports", deletions |-> deletions,
                      before |-> View(bufs, heap, 1),
                      error |-> r.error, issued |-> r.issued]
        /\ pc' = "called"
        /\ UNCHANGED <<lm, lmOp, files>>
        /\ UNCHANGED extraVars

NextBatch ==
    \/ \E d \in Ranges : PushDeletion(d)
    \/ CallRemoveImports

SpecBatch == InitBatch /\ [][NextBatch]_vars

TypeOK ==
    /\ \A s \in Slots : Range(bufs[s].map) \subseteq Ids
    /\ \A s \in Slots : Len(bufs[s].source) <= 4 * MaxLen
    /\ pc \in {"constructed", "called", "derived", "mutated", "saved",
              "loaded"}

\* ================================================================== claims
\* The calls that are splice or are defined by one call of splice.
SpliceOps == {"splice", "insert", "delete", "append"}

\* The text a call's insertion stands for, read in the state before the call.
InsText(op) == IF op.ins.kind = "ms" THEN bufs[op.ins.slot].source
               ELSE op.ins.str

\* s with every offset moved by delta.
Shifted(pts, delta) ==
    [i \in 1..Len(pts) |-> [pts[i] EXCEPT !.offset = @ + delta]]

\* C1: starting from buffers with sorted mapping sequences, after any splice,
\* insert, delete or append (of a plain string or of another MappedSource)
\* the receiver's mapping sequence is sorted by ascending offset, and so is
\* every buffer substring returns.
C1_MapSorted ==
    [][(/\ lastOp'.op \in SpliceOps \cup {"substring"}
        /\ lastOp'.error = ""
        /\ lastOp'.op \in SpliceOps
             => /\ lastOp'.length >= 0
                /\ lastOp'.ins.kind = "ms" => lastOp'.ins.slot # lastOp'.self
        /\ \A s \in Slots : IsSorted(Offsets(bufs, heap, s)))
       => \A s \in Slots : IsSorted(Offsets(bufs', heap', s))]_vars

\* C2: starting from buffers whose points lie inside their text, after every
\* splice, insert, delete or append that returns without throwing, every
\* point of every buffer has 0 <= offset <= length of the current text, for
\* every argument combination the precondition check of splice accepts.
InText(bs, h) ==
    \A s \in Slots :
        \A i \in 1..Len(bs[s].map) :
            /\ 0 <= h[bs[s].map[i]].offset
            /\ h[bs[s].map[i]].offset <= Len(bs[s].source)

C2_OffsetsInText ==
    [][(/\ lastOp'.op \in SpliceOps
        /\ lastOp'.error = ""
        /\ lastOp'.ins.kind = "ms" => lastOp'.ins.slot # lastOp'.self
        /\ InText(bufs, heap))
       => InText(bufs', heap')]_vars

\* C3: splice called with offset < 0 or offset + deleteLength > length of the
\* text fails with an error, and leaves the text and the mapping sequence of
\* every buffer exactly as they were.
C3_InvalidSpliceFails ==
    [][(/\ lastOp'.op \in SpliceOps
        /\ \/ lastOp'.offset < 0
           \/ lastOp'.offset + lastOp'.length
                  > Len(bufs[lastOp'.self].source))
       => /\ lastOp'.error # ""
          /\ \A s \in Slots : View(bufs', heap', s) = View(bufs, heap, s)]_vars

C3_Witness ==
    /\ lastOp.op = "splice"
    /\ lastOp.error = "invalid splice end offset"
    /\ lastOp.offset >= 0
    /\ lastOp.length >= 0
    /\ lastOp.offset < Len(bufs[lastOp.self].source)
    /\ lastOp.offset + lastOp.length > Len(bufs[lastOp.self].source)
    /\ Len(bufs[lastOp.self].map) = MaxPts

\* C4: a successful splice(offset, deleteLength, s) with a plain string s and
\* deleteLength >= 0 keeps every point with point.offset < offset, removes
\* every point with offset <= point.offset < offset + deleteLength, and
\* shifts every point with point.offset >= offset + deleteLength by
\* (length of s - deleteLength); the survivors keep their order and no other
\* point is added or removed.
C4_Expected(pts, offset, length, stringLength) ==
    LET kept == SelectSeq(pts, LAMBDA p : p.offset < offset
                                          \/ p.offset >= offset + length)
    IN  [i \in 1..Len(kept) |->
            IF kept[i].offset < offset THEN kept[i]
            ELSE [kept[i] EXCEPT !.offset = @ + stringLength - length]]

C4_SplicePlainString ==
    [][(/\ lastOp'.op \in SpliceOps
        /\ lastOp'.error = ""
        /\ lastOp'.ins.kind = "str"
        /\ lastOp'.length >= 0)
       => Points(bufs', heap', lastOp'.self)
            = C4_Expected(Points(bufs, heap, lastOp'.self), lastOp'.offset,
                          lastOp'.length, Len(lastOp'.ins.str))]_vars

\* A splice that deleted the first point of buffer 1 and moved its second
\* point, which sat exactly at the end of the deleted span.
C4_Witness ==
    /\ lastOp.op = "splice"
    /\ lastOp.error = ""
    /\ lastOp.self = 1
    /\ lastOp.ins.kind = "str"
    /\ Len(lastOp.ins.str) = 1
    /\ lastOp.length = 1
    /\ Len(bufs[1].map) = 1
    /\ heap[bufs[1].map[1]].name = <<1, 2>>
    /\ heap[bufs[1].map[1]].offset = lastOp.offset + 1

\* C5: after a successful splice(offset, deleteLength, insertion) with
\* deleteLength >= 0 the text is old[0, offset), then the insertion text,
\* then old[offset + deleteLength, end); its length is the old length
\* - deleteLength + the insertion's length; a MappedSource insertion
\* contributes its source text.
C5_SpliceText ==
    [][(/\ lastOp'.op \in SpliceOps
        /\ lastOp'.error = ""
        /\ lastOp'.length >= 0)
       => LET old == bufs[lastOp'.self].source
              new == bufs'[lastOp'.self].source
          IN  /\ new = SubSeq(old, 1, lastOp'.offset) \o InsText(lastOp')
                        \o SubSeq(old, lastOp'.offset + lastOp'.length + 1,
                                  Len(old))
              /\ Len(new) = Len(old) - lastOp'.length
                              + Len(InsText(lastOp'))]_vars

\* Buffer 2 was spliced into buffer 1 over its second character.
C5_Witness ==
    /\ lastOp.op = "splice"
    /\ lastOp.error = ""
    /\ lastOp.self = 1
    /\ lastOp.ins = [kind |-> "ms", slot |-> 2]
    /\ lastOp.offset = 1
    /\ lastOp.length = 1
    /\ bufs[1].source = <<"a", "x">>

\* C6: insert(o, s) with a plain string s of length L shifts every point with
\* offset >= o, a point exactly at o included, by +L, leaves every point
\* with offset < o unchanged, and removes or adds no point.
C6_InsertPlainString ==
    [][(/\ lastOp'.op = "insert"
        /\ lastOp'.error = ""
        /\ lastOp'.ins.kind = "str")
       => LET old == Points(bufs, heap, lastOp'.self)
              new == Points(bufs', heap', lastOp'.self)
          IN  /\ Len(new) = Len(old)
              /\ \A i \in 1..Len(old) :
                    new[i] = IF old[i].offset >= lastOp'.offset
                             THEN [old[i] EXCEPT !.offset =
                                      @ + Len(lastOp'.ins.str)]
                             ELSE old[i]]_vars

\* A one-character insert at the offset of the second point of buffer 1,
\* whose first point lies before it.
C6_Witness ==
    /\ lastOp.op = "insert"
    /\ lastOp.error = ""
    /\ lastOp.self = 1
    /\ lastOp.ins.kind = "str"
    /\ Len(lastOp.ins.str) = 1
    /\ Len(bufs[1].map) = 2
    /\ heap[bufs[1].map[1]].offset < lastOp.offset
    /\ heap[bufs[1].map[2]].offset = lastOp.offset + 1

\* C7: splice(offset, deleteLength, B) with B a MappedSource that has a
\* non-empty sorted map yields the receiver's points below offset,
\* unchanged, then B's points moved by offset, in B's order, then the
\* receiver's points at or beyond the end of the deleted span, moved by
\* (length of B's text - deleteLength).
C7_SpliceMappedOrder ==
    [][(/\ lastOp'.op \in SpliceOps
        /\ lastOp'.error = ""
        /\ lastOp'.ins.kind = "ms"
        /\ lastOp'.ins.slot # lastOp'.self
        /\ lastOp'.length >= 0
        /\ Len(bufs[lastOp'.ins.slot].map) > 0
        /\ IsSorted(Offsets(bufs, heap, lastOp'.ins.slot)))
       => LET A == Points(bufs, heap, lastOp'.self)
              B == Points(bufs, heap, lastOp'.ins.slot)
              o == lastOp'.offset
              before == SelectSeq(A, LAMBDA p : p.offset < o)
              after == SelectSeq(A, LAMBDA p :
                                      p.offset >= o + lastOp'.length)
          IN  Points(bufs', heap', lastOp'.self)
                = before \o Shifted(B, o)
                    \o Shifted(after, Len(InsText(lastOp'))
                                        - lastOp'.length)]_vars

\* C8: splice, insert or append of a MappedSource B into a different buffer A
\* leaves B's text and B's mapping sequence (length, order, every field of
\* every point) as they were, and shares none of B's points with A.
C8_InsertedBufferUntouched ==
    [][(/\ lastOp'.op \in SpliceOps
        /\ lastOp'.error = ""
        /\ lastOp'.ins.kind = "ms"
        /\ lastOp'.ins.slot # lastOp'.self)
       => /\ View(bufs', heap', lastOp'.ins.slot)
               = View(bufs, heap, lastOp'.ins.slot)
          /\ Range(bufs'[lastOp'.ins.slot].map)
               \cap Range(bufs'[lastOp'.self].map) = {}]_vars

\* Buffer 2, with two points, was inserted into buffer 1 at offset 1.
C8_Witness ==
    /\ lastOp.op = "insert"
    /\ lastOp.error = ""
    /\ lastOp.self = 1
    /\ lastOp.ins = [kind |-> "ms", slot |-> 2]
    /\ lastOp.offset = 1
    /\ Len(bufs[2].map) = 2
    /\ \E i \in 1..Len(bufs[1].map) : heap[bufs[1].map[i]].name = <<2, 2>>

\* C9: no mapping point is shared between two buffers as a result of
\* substring or of splicing one buffer into the other: after either
\* operation the two buffers have no point object in common, and a later
\* splice, insert, delete or append on one of them changes neither the text
\* nor any point of the other, and shares no point either.
NoSharedPoint(bs) == Range(bs[1].map) \cap Range(bs[2].map) = {}

C9_NoSharedPoints ==
    [][/\ pc' = "derived" /\ lastOp'.error = "" => NoSharedPoint(bufs')
       /\ pc' = "mutated"
            => /\ NoSharedPoint(bufs')
               /\ \A s \in Slots \ {lastOp'.self} :
                     View(bufs', heap', s) = View(bufs, heap, s)]_vars

\* Buffer 2 was taken as buffer1.substring(1, 2) with two points, and then
\* "u" was inserted at the start of buffer 1, which moved both points of
\* buffer 1 and none of buffer 2.
C9_Witness ==
    /\ pc = "mutated"
    /\ lastOp.op = "insert"
    /\ lastOp.error = ""
    /\ lastOp.self = 1
    /\ lastOp.offset = 0
    /\ lastOp.ins = [kind |-> "str", str |-> <<"u">>]
    /\ bufs[1].source = <<"u", "a", "b">>
    /\ bufs[2].source = <<"b">>
    /\ Len(bufs[2].map) = 2
    /\ Points(bufs, heap, 2) = Shifted(Points(bufs, heap, 1), 0 - 2)

\* C10: for 0 <= start <= end <= length, substring(start, end) returns a
\* buffer whose text is the slice [start, end) and whose mapping sequence is
\* the source points with start <= offset <= end, in order, each moved by
\* -start; every offset of the result lies in [0, end - start].
C10_Substring ==
    [][(/\ lastOp'.op = "substring"
        /\ 0 <= lastOp'.start
        /\ lastOp'.start <= lastOp'.end
        /\ lastOp'.end <= Len(bufs[lastOp'.self].source))
       => LET old == View(bufs, heap, lastOp'.self)
              new == View(bufs', heap', lastOp'.dest)
              kept == SelectSeq(old.map, LAMBDA p :
                          lastOp'.start <= p.offset
                          /\ p.offset <= lastOp'.end)
          IN  /\ new.source = SubSeq(old.source, lastOp'.start + 1,
                                     lastOp'.end)
              /\ new.map = Shifted(kept, 0 - lastOp'.start)
              /\ \A i \in 1..Len(new.map) :
                    /\ 0 <= new.map[i].offset
                    /\ new.map[i].offset <= lastOp'.end - lastOp'.start]_vars

\* buffer2 = buffer1.substring(1, 2) kept both boundary points of buffer 1.
C10_Witness ==
    /\ lastOp.op = "substring"
    /\ lastOp.self = 1
    /\ lastOp.dest = 2
    /\ lastOp.start = 1
    /\ lastOp.end = 2
    /\ Len(bufs[1].map) = 2
    /\ Offsets(bufs, heap, 1) = <<1, 2>>
    /\ Offsets(bufs, heap, 2) = <<0, 1>>
    /\ bufs[2].source = <<"b">>

\* C11: substring(start, end) does not mutate the buffer it is called on: for
\* every start and end, the text and the mapping sequence (length, order,
\* every offset) of the receiver are the same after the call as before it.
C11_SubstringKeepsReceiver ==
    [][(/\ lastOp'.op = "substring"
        /\ lastOp'.dest # lastOp'.self)
       => View(bufs', heap', lastOp'.self)
            = View(bufs, heap, lastOp'.self)]_vars

\* buffer2 = buffer1.substring(1, 1) took the point at offset 1, moved to 0,
\* and buffer 1 still has its points at 0 and 1.
C11_Witness ==
    /\ lastOp.op = "substring"
    /\ lastOp.self = 1
    /\ lastOp.dest = 2
    /\ lastOp.start = 1
    /\ lastOp.end = 1
    /\ Offsets(bufs, heap, 1) = <<0, 1>>
    /\ Offsets(bufs, heap, 2) = <<0>>

\* C12: substring(start, end) fails with an InvalidRange error whenever start
\* or end is negative, start > end, or either exceeds the text length; it
\* never returns a buffer for such arguments.
C12_InvalidSubstringFails ==
    [][(/\ lastOp'.op = "substring"
        /\ \/ lastOp'.start < 0
           \/ lastOp'.end < 0
           \/ lastOp'.start > lastOp'.end
           \/ lastOp'.start > Len(bufs[lastOp'.self].source)
           \/ lastOp'.end > Len(bufs[lastOp'.self].source))
       => lastOp'.error = "InvalidRange"]_vars

\* C13: the LineMap built from any text has lineOffsets[0] = 0, strictly
\* increasing lineOffsets, and every recorded line start at most the text
\* length; fromOffset and toOffset never change the table.
LineTableOK(this) ==
    /\ Len(this.lineOffsets) >= 1
    /\ this.lineOffsets[1] = 0
    /\ \A i \in 1..(Len(this.lineOffsets) - 1) :
          this.lineOffsets[i] < this.lineOffsets[i + 1]
    /\ \A i \in 1..Len(this.lineOffsets) :
          this.lineOffsets[i] <= this.totalLength

C13_LineTable ==
    [][/\ LineTableOK(lm)
       /\ LineTableOK(lm')
       /\ lmOp'.op \in {"fromOffset", "toOffset"} => lm' = lm]_vars

\* toOffset was called on a LineMap of three lines.
C13_Witness ==
    /\ lmOp.op = "toOffset"
    /\ lm.lineOffsets = <<0, 1, 2>>
    /\ lm.totalLength = 2

\* C14: construction records exactly one line start after each terminator, a
\* terminator being a "\n", a "\r" not followed by "\n", or a "\r\n" pair
\* counted once (line start after the "\n"); "\n\r" is two terminators.
LineStartsOf(str) ==
    {0} \cup {i \in 1..Len(str) :
                 \/ str[i] = "\n"
                 \/ str[i] = "\r" /\ ~(i < Len(str) /\ str[i + 1] = "\n")}

C14_LineStarts ==
    lmOp.op = "new"
    => /\ Range(lm.lineOffsets) = LineStartsOf(lmOp.str)
       /\ Len(lm.lineOffsets) = Cardinality(LineStartsOf(lmOp.str))

\* Built from "\r\n\n\r" cut to three characters: "\r\n" is one terminator
\* and the "\n" after it another.
C14_Witness ==
    /\ lmOp.op = "new"
    /\ lmOp.str = <<"\r", "\n", "\n">>
    /\ lm.lineOffsets = <<0, 2, 3>>

\* C15: for offset >= 0, fromOffset(offset) returns line = lineBase + i and
\* column = columnBase + offset - lineOffsets[i], i being the index of the
\* greatest recorded line start <= offset; beyond the text this is the last
\* line, with a column past that line's length.
C15_FromOffset ==
    [][(/\ lmOp'.op = "fromOffset"
        /\ lmOp'.offset >= 0)
       => LET starts == lm.lineOffsets
              i == CHOOSE i \in 0..(Len(starts) - 1) :
                      /\ starts[i + 1] <= lmOp'.offset
                      /\ \A j \in 0..(Len(starts) - 1) :
                            starts[j + 1] <= lmOp'.offset => j <= i
          IN  lmOp'.result
                = [line   |-> lm.options.lineBase + i,
                   column |-> Num(lm.options.columnBase + lmOp'.offset
                                  - starts[i + 1])]]_vars

\* fromOffset(3) on a text of two characters and two lines, bases 1: the
\* second line, two columns after its start at 1.
C15_Witness ==
    /\ lmOp.op = "fromOffset"
    /\ lmOp.offset = 3
    /\ lm.totalLength = 2
    /\ lm.lineOffsets = <<0, 1>>
    /\ lm.options = [lineBase |-> 1, columnBase |-> 1]
    /\ lmOp.result = [line |-> 2, column |-> Num(3)]

\* C16: toOffset(line, column) always returns an integer in [0, text
\* length], for every line at or after lineBase, the line just after the
\* last recorded one included, and every column at or after columnBase.
C16_ToOffsetInRange ==
    [][(/\ lmOp'.op = "toOffset"
        /\ lmOp'.line >= lm.options.lineBase
        /\ lmOp'.column >= lm.options.columnBase)
       => /\ ~lmOp'.result.nan
          /\ 0 <= lmOp'.result.num
          /\ lmOp'.result.num <= lm.totalLength]_vars

\* C17: for every text, every line and column base and every offset with
\* 0 <= offset <= text length, toOffset(fromOffset(offset)) = offset.
C17_OffsetRoundTrip ==
    [][(/\ lmOp.op = "fromOffset"
        /\ 0 <= lmOp.offset
        /\ lmOp.offset <= lm.totalLength
        /\ lmOp'.op = "toOffset")
       => lmOp'.result = Num(lmOp.offset)]_vars

\* Offset 3 of "\r\na" went to line 2, column 2 (bases 1) and came back.
C17_Witness ==
    /\ lmOp.op = "toOffset"
    /\ lmOp.chained
    /\ lm.options = [lineBase |-> 1, columnBase |-> 1]
    /\ lm.lineOffsets = <<0, 2>>
    /\ lm.totalLength = 3
    /\ lmOp.line = 2
    /\ lmOp.column = 2
    /\ lmOp.result = Num(3)

\* C18: for every recorded line start, fromOffset(toOffset(line, columnBase))
\* = (line, columnBase): an offset equal to a line start is the first column
\* of that line, never the end of the line before.
C18_LineStartRoundTrip ==
    [][(/\ lmOp.op = "toOffset"
        /\ lmOp.column = lm.options.columnBase
        /\ 0 <= lmOp.line - lm.options.lineBase
        /\ lmOp.line - lm.options.lineBase < Len(lm.lineOffsets)
        /\ lmOp'.op = "fromOffset")
       => lmOp'.result = [line   |-> lmOp.line,
                          column |-> Num(lmOp.column)]]_vars

\* Line 3 (bases 1) of a text of three lines went to offset 2 and came back
\* as line 3, column 1.
C18_Witness ==
    /\ lmOp.op = "fromOffset"
    /\ lmOp.chained
    /\ lm.options = [lineBase |-> 1, columnBase |-> 1]
    /\ lm.lineOffsets = <<0, 1, 2>>
    /\ lmOp.offset = 2
    /\ lmOp.result = [line |-> 3, column |-> Num(1)]

\* C19: save does not touch the buffer: whether the writes succeed or fail,
\* the text and the mapping sequence (length, order, every offset) of every
\* buffer are the same after save as before it.
C19_SaveKeepsBuffer ==
    [][lastOp'.op = "save"
       => \A s \in Slots : View(bufs', heap', s) = View(bufs, heap, s)]_vars

\* Buffer 1 was saved after an insert, the write of the map file failing:
\* the text file holds the text and the marker line, the buffer only the text.
C19_Witness ==
    /\ lastOp.op = "save"
    /\ lastOp.self = 1
    /\ lastOp.fail = "map"
    /\ lastOp.error = "EIO"
    /\ lastOp.after.op = "insert"
    /\ lastOp.after.error = ""
    /\ files.written = {"source"}
    /\ files.name = OutFile
    /\ files.source = bufs[1].source \o <<"\n", Marker, "f", ".map", "\n">>
    /\ Len(bufs[1].map) = MaxPts

\* C20: for a buffer reached from sorted buffers by substring, splice,
\* insert, delete or append, save emits the mapping entries in ascending
\* generated (line, column) order, the generated position of an entry being
\* fromOffset(offset) over a LineMap of the text with lines counted from 1.
NotAfter(p, q) ==
    \/ p.line < q.line
    \/ /\ p.line = q.line
       /\ ~p.column.nan
       /\ ~q.column.nan
       /\ p.column.num <= q.column.num

Ascending(entries) ==
    \A i \in 1..(Len(entries) - 1) :
        NotAfter(entries[i].generated, entries[i + 1].generated)

C20_SaveAscending ==
    [][(/\ lastOp'.op = "save"
        /\ lastOp'.error = ""
        /\ lastOp.op \in SpliceOps \cup {"substring"}
        /\ lastOp.error = ""
        /\ lastOp.op \in SpliceOps
             => /\ lastOp.length >= 0
                /\ lastOp.ins.kind = "ms" => lastOp.ins.slot # lastOp.self)
       => /\ files'.map = mappings(bufs, heap, lastOp'.self)
          /\ Ascending(files'.map)]_vars

\* C21: for any text and an empty mapping sequence, save(filename) followed
\* by FromSourceFile(filename) returns a buffer whose text is the text of
\* the saved buffer and whose mapping sequence is empty: the reference save
\* wrote resolves to the map file save wrote, so the load does not fail.
C21_SaveLoadRoundTrip ==
    [][(/\ lastOp'.op = "load"
        /\ lastOp.op = "save"
        /\ lastOp.error = ""
        /\ lastOp'.file = lastOp.filename
        /\ bufs[lastOp.self].map = <<>>)
       => /\ lastOp'.error = ""
          /\ bufs'[lastOp'.dest].source = bufs[lastOp.self].source
          /\ bufs'[lastOp'.dest].map = <<>>]_vars

\* C24: FromSourceFile removes exactly the first occurrence of the marker,
\* from the marker to the end of its line and the one character after it,
\* and leaves every other character in place and in order; a file with one
\* marker line loads to a text with no marker.
Occurrences(text) == Cardinality({i \in 1..Len(text) : text[i] = Marker})

C24_LoadStripsMarker ==
    [][(/\ lastOp'.op = "load"
        /\ lastOp'.error = ""
        /\ Occurrences(files.source) >= 1)
       => LET read == files.source
              loaded == bufs'[lastOp'.dest].source
          IN  /\ \E i \in 1..Len(read), j \in 1..Len(read) :
                    /\ i <= j
                    /\ read[i] = Marker
                    /\ \A k \in 1..(i - 1) : read[k] # Marker
                    /\ \A k \in (i + 1)..j : read[k] \notin LineEnds
                    /\ j < Len(read) => read[j + 1] \in LineEnds
                    /\ loaded = SubSeq(read, 1, i - 1)
                                  \o SubSeq(read, j + 2, Len(read))
              /\ Occurrences(read) = 1 => Occurrences(loaded) = 0]_vars

\* A file made of "a" and a marker line naming the map file "a" was loaded
\* and gave the text "a".
C24_Witness ==
    /\ lastOp.op = "load"
    /\ lastOp.error = ""
    /\ files.source = <<"a", Marker, "a", "\n">>
    /\ bufs[2].source = <<"a">>

\* C26: after any sequence of loadOriginalFile calls, calls whose load
\* throws included, every call loadOriginalFile(name) that returns yields
\* the SourceFile loaded from name, never one loaded from another name and
\* never an unset value.
C26_CacheReturnsNamedFile ==
    [][(/\ loadOp'.op = "loadOriginalFile"
        /\ loadOp'.error = "")
       => loadOp'.result = loadOp'.name]_vars

\* C27: skip_eol(str, from) returns from + 2 when a "\r\n" pair starts at
\* from, from + 1 when a single "\n" is at from, and from when no line
\* terminator is at from; so find_next_line_ws(str, from) returns the start
\* of the next line when only spaces and tabs lie between from and the
\* terminator.
C27_SkipEol ==
    LET str == fn.str
        at(i) == StrAt(str, i)
        blanks == CHOOSE e \in fn.from..Len(str) :
                      /\ \A k \in fn.from..(e - 1) : at(k) \in {" ", "\t"}
                      /\ at(e) \notin {" ", "\t"}
    IN  /\ fn.op = "skip_eol"
           => fn.result = IF at(fn.from) = "\r" /\ at(fn.from + 1) = "\n"
                          THEN fn.from + 2
                          ELSE IF at(fn.from) = "\n" THEN fn.from + 1
                          ELSE IF at(fn.from) = "\r" THEN fn.result
                          ELSE fn.from
        /\ fn.op = "find_next_line_ws"
           => /\ at(blanks) = "\r" /\ at(blanks + 1) = "\n"
                 => fn.result = blanks + 2
              /\ at(blanks) = "\n" => fn.result = blanks + 1

\* C25: append(value) is splice(length, 0, value): an existing point whose
\* offset is the old text length is moved to the new text length, every
\* point with a smaller offset keeps its offset, and no existing point is
\* removed.
C25_Append ==
    [][(/\ lastOp'.op = "append"
        /\ lastOp'.ins.kind = "ms" => lastOp'.ins.slot # lastOp'.self)
       => LET self == lastOp'.self
              old == View(bufs, heap, self)
              new == View(bufs', heap', self)
              was == SelectSeq(new.map, LAMBDA p : p.name[1] = self)
          IN  /\ lastOp'.error = ""
              /\ new.source = old.source \o InsText(lastOp')
              /\ Len(was) = Len(old.map)
              /\ \A i \in 1..Len(old.map) :
                    was[i] = IF old.map[i].offset = Len(old.source)
                             THEN [old.map[i] EXCEPT !.offset =
                                      Len(new.source)]
                             ELSE old.map[i]]_vars

\* "u" was appended to buffer 1, "ab" with points at 1 and at 2: the point
\* at 1 stayed and the point at the end moved to 3.
C25_Witness ==
    /\ lastOp.op = "append"
    /\ lastOp.self = 1
    /\ lastOp.ins = [kind |-> "str", str |-> <<"u">>]
    /\ bufs[1].source = <<"a", "b", "u">>
    /\ Offsets(bufs, heap, 1) = <<1, 3>>

\* C30: for every array sorted consistently with the comparator and every
\* item, binarySearch returns an index i with compare(array[i], item) = 0
\* when there is such an element, and otherwise -1 - p, p being the number
\* of elements that compare less than the item.
C30_BinarySearch ==
    fn.op = "binarySearch"
    => LET compare_items == Comparator(fn.compare)
           cmp(i) == compare_items[fn.array[i], fn.item]
           equal == {i \in 1..Len(fn.array) :
                        (~cmp(i).nan) /\ cmp(i).num = 0}
           less == {i \in 1..Len(fn.array) :
                       (~cmp(i).nan) /\ cmp(i).num < 0}
       IN  IF equal # {}
           THEN fn.result + 1 \in equal
           ELSE fn.result = (0 - 1) - Cardinality(less)

\* 1 was looked for in [0, 0, 2, 2] and not found: two elements are less.
C30_Witness ==
    /\ fn.op = "binarySearch"
    /\ fn.compare = "number"
    /\ fn.array = <<0, 0, 2, 2>>
    /\ fn.item = 1
    /\ fn.result = 0 - 3

\* C29: tokenizer.readString terminates for every string and start
\* position, a string with a backslash followed by a character that is no
\* recognised escape included: a call that has read its opening delimiter
\* returns.
C29_ReadStringTerminates ==
    (tokenizer.op = "reading") ~> (tokenizer.op = "returned")

\* C28: resolveExportDeclarations terminates for every module graph, graphs
\* whose "export * from" declarations form a cycle included: the body of
\* the resolution of a module runs at most once, and afterwards every module
\* has a resolvedExports list.
C28_ResolveTerminates ==
    /\ [](\A m \in ModuleIds : modules.list[m].runs <= 1)
    /\ <>(/\ modules.status = "done"
          /\ \A m \in ModuleIds : modules.list[m].resolvedExports.defined)

\* Two modules that "export * from" each other were resolved, each once; the
\* first has the declaration of both, the second its own.
C28_Witness ==
    /\ modules.status = "done"
    /\ modules.list[1].exports = <<Definition(1), StarFrom(2)>>
    /\ modules.list[2].exports = <<Definition(2), StarFrom(1)>>
    /\ modules.list[1].runs = 1
    /\ modules.list[2].runs = 1
    /\ modules.list[1].resolvedExports.items
         = <<Definition(1), Definition(2)>>
    /\ modules.list[2].resolvedExports.items = <<Definition(2)>>

\* Two entries of a batch overlap: they share a character.
Overlap(a, b) == a.pos < b.end /\ b.pos < a.end

SomeOverlap(dels) ==
    \E i, j \in 1..Len(dels) : i # j /\ Overlap(dels[i], dels[j])

InSomeRange(dels, offset) ==
    \E i \in 1..Len(dels) : dels[i].pos <= offset /\ offset < dels[i].end

\* The total length of the ranges that end at or before offset.
RECURSIVE EndedBefore(_, _, _)
EndedBefore(dels, i, offset) ==
    IF i > Len(dels) THEN 0
    ELSE (IF dels[i].end <= offset THEN dels[i].end - dels[i].pos ELSE 0)
         + EndedBefore(dels, i + 1, offset)

\* text without the characters inside a range of dels.
RECURSIVE TextOutside(_, _, _)
TextOutside(text, dels, i) ==
    IF i > Len(text) THEN <<>>
    ELSE (IF InSomeRange(dels, i - 1) THEN <<>> ELSE <<text[i]>>)
         \o TextOutside(text, dels, i + 1)

\* The points outside every range of dels, moved left past the ranges that
\* end at or before them.
RECURSIVE PointsOutside(_, _, _)
PointsOutside(points, dels, i) ==
    IF i > Len(points) THEN <<>>
    ELSE (IF InSomeRange(dels, points[i].offset) THEN <<>>
          ELSE <<[points[i] EXCEPT
                    !.offset = @ - EndedBefore(dels, 1, @)]>>)
         \o PointsOutside(points, dels, i + 1)

\* C22: when a batch of scheduled deletions holds two overlapping ranges,
\* the batch is rejected with an error before any deletion is issued: the
\* text and the mapping points of the buffer are what they were.
C22_RejectedBeforeAnyDeletion ==
    (lastOp.op = "removeImports" /\ SomeOverlap(lastOp.deletions))
        => /\ lastOp.error = Overlapping
           /\ View(bufs, heap, 1) = lastOp.before

\* C23: for pairwise non-overlapping ranges inside the buffer, the deletes
\* issued back to front leave the original text without the ranges, and as
\* mapping points exactly the original points in none of the ranges, each
\* moved left by the total length of the ranges that end at or before it;
\* and every batch in which two ranges overlap is rejected.
C23_BackToFront ==
    lastOp.op = "removeImports"
        => IF SomeOverlap(lastOp.deletions)
           THEN lastOp.error = Overlapping
           ELSE /\ lastOp.error = ""
                /\ lastOp.issued = Len(lastOp.deletions)
                /\ bufs[1].source
                     = TextOutside(lastOp.before.source, lastOp.deletions, 1)
                /\ Points(bufs, heap, 1)
                     = PointsOutside(lastOp.before.map, lastOp.deletions, 1)

\* A full batch of separate ranges was applied: points were dropped, and a
\* point that survived has moved.
C23_Witness ==
    /\ lastOp.op = "removeImports"
    /\ lastOp.error = ""
    /\ Len(lastOp.deletions) = MaxDels
    /\ Len(bufs[1].map) < Len(lastOp.before.map)
    /\ \E i \in 1..Len(bufs[1].map) :
          \E j \in 1..Len(lastOp.before.map) :
             /\ lastOp.before.map[j].name = heap[bufs[1].map[i]].name
             /\ lastOp.before.map[j].offset > heap[bufs[1].map[i]].offset

====
